---------------------------- MODULE Spec2Model ----------------------------
(***************************************************************************)
(* Channel-normalisation and provider-dispatch layer of Text-to-LLM:       *)
(* the Telegram webhook (app/main.py, app/telegram_controller.py), the     *)
(* WhatsApp webhook (app/routers/whatsapp.py), the Discord bot             *)
(* (discord/bot.py) and the polling DM listener                            *)
(* (app/twitter_controller.py).                                            *)
(*                                                                         *)
(* Texts are TLA+ strings; Len, \o and SubSeq act on them as on Python     *)
(* str.  Every handler is one action; the variable req holds the trace of  *)
(* the event handled last: the calls the handler made, in order, and the   *)
(* response it returned.                                                   *)
(***************************************************************************)
EXTENDS Integers, Sequences, FiniteSets, TLC

VARIABLES
    unit,        \* the running program: "app", "discord", "twitter", or the
                 \* "service" (LLMService) or "controller"
                 \* (TelegramController) called on its own
    config,      \* app/config.py: the Config class attributes
    llm_service, \* app/llm_service.py: the module's instance (None before
                 \* the module is imported)
    server,      \* app/main.py: "starting", then "serving" or "refused"
    call,        \* trace of the last call of LLMService.generate
    listener,    \* start_dm_listener: "polling", "sleeping" or "stopped"
    llm_client,  \* discord/bot.py: LLMClient(server_url, openai_key)
    req,         \* trace of the event handled last
    last_id,     \* start_dm_listener: the loop-local dedup marker
    prevPoll,    \* the poll cycle before the last one: what it fetched and
                 \* the error it logged (None before two cycles)
    dmCalls,     \* provider calls made so far for each DM event id
    polls,       \* poll cycles run so far
    tasks        \* the frames of the request tasks of the app

vars == <<unit, config, llm_service, server, call, llm_client, req, listener, last_id,
          prevPoll, dmCalls, polls, tasks>>

\* Optional[T]: None is the empty tuple, a value v is <<v>>.  A key absent
\* from a JSON object reads as None.
None == <<>>
Some(v) == <<v>>
Get(o) == o[1]

-----------------------------------------------------------------------------
(* Bounds of the model *)

MaxDmId == 2      \* DM event ids are 1..MaxDmId
MaxEvents == 2    \* events returned by one poll
MaxPolls == 2     \* poll cycles per behaviour
MaxTasks == 2     \* requests in flight at once

-----------------------------------------------------------------------------
(* Python str operations *)

Min(S) == CHOOSE x \in S : \A y \in S : x <= y

RECURSIVE Rep(_, _)
\* c * n
Rep(c, n) ==
    IF n = 0 THEN ""
    ELSE LET h == Rep(c, n \div 2)
         IN  IF n % 2 = 0 THEN h \o h ELSE h \o h \o c

IsSpace(c) == c \in {" ", "\n", "\t"}

RECURSIVE lstrip(_)
\* s.lstrip()
lstrip(s) ==
    IF s # "" /\ IsSpace(SubSeq(s, 1, 1)) THEN lstrip(SubSeq(s, 2, Len(s))) ELSE s

RECURSIVE rstrip(_)
\* s.rstrip()
rstrip(s) ==
    IF s # "" /\ IsSpace(SubSeq(s, Len(s), Len(s)))
    THEN rstrip(SubSeq(s, 1, Len(s) - 1)) ELSE s

\* s.strip()
strip(s) == rstrip(lstrip(s))

\* s.startswith(p)
startswith(s, p) == Len(s) >= Len(p) /\ SubSeq(s, 1, Len(p)) = p

\* sub in s
Contains(s, sub) ==
    \E i \in 1..(Len(s) - Len(sub) + 1) : SubSeq(s, i, i + Len(sub) - 1) = sub

RECURSIVE replace(_, _, _)
\* s.replace(old, new), old non-empty: leftmost non-overlapping occurrences
replace(s, old, new) ==
    IF Len(s) < Len(old) THEN s
    ELSE IF startswith(s, old)
         THEN new \o replace(SubSeq(s, Len(old) + 1, Len(s)), old, new)
         ELSE SubSeq(s, 1, 1) \o replace(SubSeq(s, 2, Len(s)), old, new)

\* bool(o) of an Optional[str]
Truthy(o) == o # None /\ Get(o) # ""

\* bool(o) of an Optional[int]
TruthyInt(o) == o # None /\ Get(o) # 0

-----------------------------------------------------------------------------
(* Outcomes of the network calls: the environment's choice *)

LongReply == Rep("a", 1901)
FullReply == Rep("a", 1900)

Replies == {"", "Hi there", LongReply}
Errors == {"Request timed out"}

\* one call of the provider: it returns text or raises with a message
Returned(t) == [ok |-> TRUE, text |-> t]
Raised(e) == [ok |-> FALSE, text |-> e]
Outcomes == {Returned(t) : t \in Replies} \cup {Raised(e) : e \in Errors}

\* trace of one handled event
Trace(ch, in, st, msg, ty, gen, snd) ==
    [channel |-> ch, input |-> in, status |-> st, message |-> msg,
     typing |-> ty, gen |-> gen, sends |-> snd]

NoEvent == Trace("none", None, 0, "", <<>>, <<>>, <<>>)

-----------------------------------------------------------------------------
(* Telegram: app/models/message.py, app/telegram_controller.py, app/main.py *)

FALLBACK == "Sorry, I encountered an error processing your request. Please try again later."

TelegramMessage(mid, chat, date, text) ==
    [message_id |-> mid, chat |-> chat, date |-> date, text |-> text]

\* message objects that pass validation, and no message
ValidMessages ==
    {Some(TelegramMessage(Some(mc[1]), Some(mc[2]), Some(0), t)) :
        mc \in {<<5, 42>>, <<0, 43>>},
        t \in {None, Some(""), Some(" "), Some("hello")}} \cup {None}

\* message objects with a required field missing
InvalidMessages ==
    {Some(TelegramMessage(None, Some(42), Some(0), Some("hello"))),
     Some(TelegramMessage(Some(5), None, Some(0), Some("hello"))),
     Some(TelegramMessage(Some(5), Some(42), None, Some("hello")))}

Update(u, m, e) ==
    [kind |-> "object", update_id |-> u, message |-> m, edited_message |-> e]

\* request bodies: not JSON at all, JSON that is not an object, JSON objects
\* that validate, and JSON objects with one required field missing
Payloads ==
    {[kind |-> "notjson"], [kind |-> "list"]} \cup
    {Update(Some(1), m, e) : m \in ValidMessages, e \in ValidMessages} \cup
    {Update(None, Some(TelegramMessage(Some(5), Some(42), Some(0), Some("hello"))), None)} \cup
    {Update(Some(1), m, None) : m \in InvalidMessages} \cup
    {Update(Some(1), None, e) : e \in InvalidMessages}

\* TelegramMessage(**obj) validates: message_id, chat and date are required
MessageOk(o) ==
    o = None \/ (Get(o).message_id # None /\ Get(o).chat # None /\ Get(o).date # None)

\* parse_webhook: the update, or None when TelegramUpdate(**payload) raises
parse_webhook(payload) ==
    IF /\ payload.update_id # None
       /\ MessageOk(payload.message)
       /\ MessageOk(payload.edited_message)
    THEN Some([update_id |-> Get(payload.update_id),
               message |-> payload.message,
               edited_message |-> payload.edited_message])
    ELSE None

\* as extract_message_data, but any text that is not None counts
extract_message_data_any_text(update) ==
    IF update.message # None /\ Get(update.message).text # None
    THEN Some(<<Get(Get(update.message).chat), Get(Get(update.message).text)>>)
    ELSE IF update.edited_message # None /\ Get(update.edited_message).text # None
         THEN Some(<<Get(Get(update.edited_message).chat),
                     Get(Get(update.edited_message).text)>>)
         ELSE None

\* as extract_message_data, but the edited message's chat is taken from
\* update.message when there is one
extract_message_data_wrong_chat(update) ==
    IF update.message # None /\ Truthy(Get(update.message).text)
    THEN Some(<<Get(Get(update.message).chat), Get(Get(update.message).text)>>)
    ELSE IF update.edited_message # None /\ Truthy(Get(update.edited_message).text)
         THEN Some(<<IF update.message # None
                     THEN Get(Get(update.message).chat)
                     ELSE Get(Get(update.edited_message).chat),
                     Get(Get(update.edited_message).text)>>)
         ELSE None

\* extract_message_data: <<chat_id, text>> or None
extract_message_data(update) ==
    IF update.message # None /\ Truthy(Get(update.message).text)
    THEN Some(<<Get(Get(update.message).chat), Get(Get(update.message).text)>>)
    ELSE IF update.edited_message # None /\ Truthy(Get(update.edited_message).text)
         THEN Some(<<Get(Get(update.edited_message).chat),
                     Get(Get(update.edited_message).text)>>)
         ELSE None

\* one HTTP call to the Bot API as the environment answers it: a transport
\* error (error names it), or a response with a status and a body
Http(error, status, body) == [error |-> error, status |-> status, body |-> body]

HttpOutcomes ==
    {Http("ConnectError", 0, ""), Http("ReadTimeout", 0, "")} \cup
    {Http("", st, body) :
        st \in {200, 201, 302, 500},
        body \in {"{\"ok\": true}", "{\"ok\": false}", "{}", "<html>"}}

\* response.json(): the "ok" field of the object (None when absent), or
\* "raise" when the body is not JSON
json_ok(body) ==
    IF body = "{\"ok\": true}" THEN "true"
    ELSE IF body = "{\"ok\": false}" THEN "false"
    ELSE IF body = "{}" THEN "absent"
    ELSE "raise"

\* response.raise_for_status() raises
raise_for_status(http) == ~(http.status >= 200 /\ http.status <= 299)

\* what a call of a controller method yields: a returned bool, or an
\* exception (raised holds its message, "" when none)
Result(value, raised) == [value |-> value, raised |-> raised]

\* as send_message_result, but response.json() is read outside the try
send_message_result_json_unguarded(http) ==
    IF http.error # "" THEN Result(FALSE, "")
    ELSE IF raise_for_status(http) THEN Result(FALSE, "")
    ELSE IF json_ok(http.body) = "raise" THEN Result(FALSE, "Expecting value")
    ELSE Result(json_ok(http.body) = "true", "")

\* send_message, from the POST on: the bool returned
send_message_result(http) ==
    IF http.error # "" THEN Result(FALSE, "")
    ELSE IF raise_for_status(http) THEN Result(FALSE, "")
    ELSE IF json_ok(http.body) = "raise" THEN Result(FALSE, "")
    ELSE Result(json_ok(http.body) = "true", "")

\* send_message: the JSON body posted to sendMessage, and the bool returned
send_message(chat_id, text, reply_to_message_id, delivered) ==
    [chat_id |-> chat_id, text |-> text,
     reply_to_message_id |->
        IF TruthyInt(reply_to_message_id) THEN reply_to_message_id ELSE None,
     ok |-> delivered]

\* as send_typing_action, but a failed call is not caught
send_typing_action_uncaught(http) ==
    IF http.error # "" THEN Result(FALSE, http.error)
    ELSE IF raise_for_status(http) THEN Result(FALSE, "Server error")
    ELSE Result(TRUE, "")

\* send_typing_action: the bool returned
send_typing_action(http) ==
    IF http.error # "" THEN Result(FALSE, "")
    ELSE IF raise_for_status(http) THEN Result(FALSE, "")
    ELSE Result(TRUE, "")

\* the typing call as the webhook may see it: it succeeds, fails, times out
TypingOutcomes ==
    {Http("", 200, "{\"ok\": true}"), Http("", 500, "{}"), Http("ReadTimeout", 0, "")}

\* the except branch around llm_service.generate: the sends it makes
generation_failed_leak(chat_id, out, delivered) ==
    <<send_message(chat_id, "Error: " \o out.text, None, delivered)>>

generation_failed(chat_id, out, delivered) ==
    <<send_message(chat_id, FALLBACK, None, delivered)>>

\* request.json() and payload.get(...): the message of the exception raised
\* for a body that is not a JSON object, None for an object
decode_error(payload) ==
    IF payload.kind = "notjson" THEN Some("Expecting value: line 1 column 1 (char 0)")
    ELSE IF payload.kind # "object" THEN Some("'list' object has no attribute 'get'")
    ELSE None

\* the catch-all except of webhook: the response to an exception e
catch_all(payload, e, typing) == Trace("telegram", payload, 500, e, typing, <<>>, <<>>)

\* as reply_target, but the id of the message the text was taken from
reply_target_of_source(update) ==
    IF update.message # None /\ Truthy(Get(update.message).text)
    THEN Get(update.message).message_id
    ELSE Get(update.edited_message).message_id

\* the reply_to_message_id argument of the reply:
\* update.message.message_id if update.message else None
reply_target(update) ==
    IF update.message # None THEN Get(update.message).message_id ELSE None

\* as delivery_response, but the result of the send is not looked at
delivery_response_always_ok(success) == [status |-> 200, message |-> ""]

\* the response after the reply was sent
delivery_response(success) ==
    IF success THEN [status |-> 200, message |-> ""]
    ELSE [status |-> 500, message |-> "Failed to send message"]

\* POST /webhook
webhook(payload, typingHttp, out, delivered) ==
    IF decode_error(payload) # None
    THEN catch_all(payload, Get(decode_error(payload)), <<>>)
    ELSE
    LET parsed == parse_webhook(payload) IN
    IF parsed = None
    THEN Trace("telegram", payload, 400, "Invalid payload", <<>>, <<>>, <<>>)
    ELSE
    LET update == Get(parsed)
        message_data == extract_message_data(update)
    IN
    IF message_data = None
    THEN Trace("telegram", payload, 200, "No text message", <<>>, <<>>, <<>>)
    ELSE
    LET chat_id == Get(message_data)[1]
        user_text == Get(message_data)[2]
        typed == send_typing_action(typingHttp)
        typing == <<[chat_id |-> chat_id, ok |-> typed.value]>>
        gen == <<[prompt |-> user_text, out |-> out]>>
    IN
    IF typed.raised # ""
    THEN catch_all(payload, typed.raised, typing)
    ELSE IF ~out.ok
    THEN Trace("telegram", payload, 500, "LLM generation failed", typing, gen,
               generation_failed(chat_id, out, delivered))
    ELSE
    LET sent == send_message(chat_id, out.text, reply_target(update), delivered)
        response == delivery_response(sent.ok)
    IN  Trace("telegram", payload, response.status, response.message, typing, gen, <<sent>>)

-----------------------------------------------------------------------------
(* WhatsApp: app/routers/whatsapp.py *)

WA_FALLBACK == "Sorry, I ran into an error while processing your message. Please try again later."
EMPTY_NOTICE == "Empty message received."

WebhookUrl == "https://bot.example/webhook/whatsapp"

OptText(o) == IF o = None THEN "" ELSE Get(o)

\* RequestValidator.compute_signature: a keyed digest of the URL followed by
\* the form fields in sorted key order
compute_signature(uri, params) ==
    "hmac(" \o uri \o "Body" \o OptText(params.Body) \o "From" \o OptText(params.From)
            \o "WaId" \o OptText(params.WaId) \o ")"

\* as validate, but any signature header that is present passes
validate_any_header(uri, params, signature) == signature # ""

\* validator.validate(url, post_data, signature)
validate(uri, params, signature) == signature = compute_signature(uri, params)

Forms ==
    [WaId : {None, Some("15550001")},
     From : {None, Some("whatsapp:+15550001")},
     Body : {None, Some(""), Some("  "), Some("hi"), Some(" hi ")}]

\* the X-Twilio-Signature header: absent (read as ""), forged, or genuine
Signatures(form) == {"", "forged", compute_signature(WebhookUrl, form)}

\* handle_incoming_message: the reply text, and the provider calls made
handle_incoming_message(user_id, text, out) ==
    [reply |-> IF out.ok THEN out.text ELSE WA_FALLBACK,
     gen |-> <<[prompt |-> text, out |-> out]>>]

\* POST /webhook/whatsapp.  sends lists the messages put into the reply
\* MessagingResponse.
whatsapp_webhook(form, signature, out) ==
    LET input == [form |-> form, signature |-> signature] IN
    IF ~validate(WebhookUrl, form, signature)
    THEN Trace("whatsapp", input, 403, "Invalid Twilio signature", <<>>, <<>>, <<>>)
    ELSE
    LET body == strip(OptText(form.Body)) IN
    IF body = ""
    THEN Trace("whatsapp", input, 200, "", <<>>, <<>>, <<[text |-> EMPTY_NOTICE]>>)
    ELSE
    LET user_id == IF Truthy(form.WaId) THEN Get(form.WaId)
                   ELSE IF Truthy(form.From) THEN Get(form.From) ELSE "unknown"
        handled == handle_incoming_message(user_id, body, out)
    IN  Trace("whatsapp", input, 200, "", <<>>, handled.gen, <<[text |-> handled.reply]>>)

-----------------------------------------------------------------------------
(* Discord: discord/bot.py *)

NO_BACKEND == "No LLM backend configured. Set LLM_SERVER_URL or OPENAI_API_KEY."
NO_REPLY == "(no reply)"
TRUNCATED == "\n\n...[truncated]"
MAX_REPLY == 1900
HEALTH == "Bot is running."
DiscordError == "503 Service Unavailable"

\* bot.user.id, and the two spellings of a mention of the bot
BotId == "1"
MentionNick == "<@!" \o BotId \o ">"
MentionPlain == "<@" \o BotId \o ">"

\* LLMClient(server_url, openai_key) as the environment may configure it
Backends ==
    {[server_url |-> TRUE, openai_key |-> FALSE],
     [server_url |-> FALSE, openai_key |-> TRUE],
     [server_url |-> FALSE, openai_key |-> FALSE]}

NoBackend == [server_url |-> FALSE, openai_key |-> FALSE]

\* LLMClient.ask: the text returned.  out is the outcome of the HTTP call
\* (none is made without a backend); the server answers {"reply": text}.
ask(client, prompt, out) ==
    IF client.server_url
    THEN IF out.ok
         THEN IF out.text # "" THEN out.text ELSE "{'reply': ''}"
         ELSE "LLM server error: " \o out.text
    ELSE IF client.openai_key
    THEN IF out.ok THEN strip(out.text) ELSE "OpenAI error: " \o out.text
    ELSE NO_BACKEND

\* reply[:1900] + marker when len(reply) > 1900
Truncate(reply) ==
    IF Len(reply) > MAX_REPLY THEN SubSeq(reply, 1, MAX_REPLY) \o TRUNCATED ELSE reply

DiscordContents ==
    {"", "hello", " hello ", "!ask hi", "!ask", "!health",
     MentionNick \o " hi", MentionPlain \o " hi", MentionNick, "hi " \o MentionNick}

HasMention(content) == Contains(content, MentionNick) \/ Contains(content, MentionPlain)

\* inbound messages: a mention token in the content puts the bot in
\* message.mentions; a reply with ping does so without a token
DiscordMessages ==
    {m \in [author_bot : BOOLEAN, is_dm : BOOLEAN, mentioned : BOOLEAN,
            content : DiscordContents] :
        HasMention(m.content) => m.mentioned}

\* which Discord API call fails while the event is handled, if any
ApiFaults == {"none", "react", "typing", "send"}

\* outcomes of LLMClient.ask's backend step
DiscordOutcomes(client) ==
    IF client = NoBackend THEN {Returned(NO_BACKEND)}
    ELSE Outcomes \cup {Returned(FullReply)}

Effects(gen, snd) == [gen |-> gen, sends |-> snd]
NoEffects == Effects(<<>>, <<>>)
Sent(via, text, fault) == [via |-> via, text |-> text, ok |-> fault # "send"]

\* ask_cmd: !ask <query>
ask_cmd(client, query, out, fault) ==
    IF fault = "react" THEN NoEffects
    ELSE IF fault = "typing"
    THEN Effects(<<>>, <<Sent("send", "Error: " \o DiscordError, fault)>>)
    ELSE
    LET reply == Truncate(ask(client, query, out))
        gen == <<[prompt |-> query, out |-> out, path |-> "command"]>>
    IN  IF fault = "send"
        THEN Effects(gen, <<Sent("send", reply, fault),
                             Sent("send", "Error: " \o DiscordError, fault)>>)
        ELSE Effects(gen, <<Sent("send", reply, fault)>>)

\* health_cmd: !health
health_cmd(fault) == Effects(<<>>, <<Sent("send", HEALTH, fault)>>)

\* the first whitespace-delimited word of s, and what follows it
FirstWord(s) ==
    LET sp == {i \in 1..Len(s) : IsSpace(SubSeq(s, i, i))}
        end == IF sp = {} THEN Len(s) ELSE Min(sp) - 1
    IN  [word |-> SubSeq(s, 1, end), rest |-> SubSeq(s, end + 1, Len(s))]

\* bot.process_commands (itself skipping bot authors): prefix "!", the
\* command named by the first word, and for ask the stripped rest of the
\* line as the required query
process_commands(client, message, out, fault) ==
    IF message.author_bot \/ ~startswith(message.content, "!") THEN NoEffects
    ELSE
    LET view == FirstWord(SubSeq(message.content, 2, Len(message.content))) IN
    IF view.word = "ask"
    THEN IF strip(view.rest) = "" THEN NoEffects
         ELSE ask_cmd(client, strip(view.rest), out, fault)
    ELSE IF view.word = "health" THEN health_cmd(fault)
    ELSE NoEffects

\* the prompt on_message derives from a message, or None when not invoked
Prompt(message) ==
    LET content == strip(message.content) IN
    IF message.is_dm THEN Some(content)
    ELSE IF message.mentioned THEN Some(strip(replace(content, MentionNick, "")))
    ELSE None

\* as ignore_author, but no author is ignored
ignore_author_never(message) == FALSE

\* on_message's first test: ignore bots, including the bot itself
ignore_author(message) == message.author_bot

\* on_message
on_message(client, message, out, fault) ==
    IF ignore_author(message)
    THEN Trace("discord", message, 0, "", <<>>, <<>>, <<>>)
    ELSE
    LET cmd == process_commands(client, message, out, fault)
        prompt == Prompt(message)
    IN
    IF ~Truthy(prompt)
    THEN Trace("discord", message, 0, "", <<>>, cmd.gen, cmd.sends)
    ELSE IF fault = "typing"
    THEN Trace("discord", message, 0, "", <<>>, cmd.gen,
               cmd.sends \o <<Sent("reply", "Error generating reply: " \o DiscordError, fault)>>)
    ELSE
    LET answer == ask(client, Get(prompt), out)
        reply == Truncate(IF answer = "" THEN NO_REPLY ELSE answer)
        gen == cmd.gen \o <<[prompt |-> Get(prompt), out |-> out, path |-> "message"]>>
    IN  IF fault = "send"
        THEN Trace("discord", message, 0, "", <<>>, gen,
                   cmd.sends \o <<Sent("reply", reply, fault),
                                  Sent("reply", "Error generating reply: " \o DiscordError, fault)>>)
        ELSE Trace("discord", message, 0, "", <<>>, gen,
                   cmd.sends \o <<Sent("reply", reply, fault)>>)

-----------------------------------------------------------------------------
(* Polling DM listener: app/twitter_controller.py *)

DmIds == 1..MaxDmId

\* the DM event with a given id, as get_direct_messages returns it
DmEvent(i) ==
    [id |-> i,
     sender_id |-> IF i % 2 = 1 THEN "user-a" ELSE "user-b",
     text |-> IF i % 2 = 1 THEN "hello" ELSE "what is TLA+?"]

\* the "events" lists a poll may return: distinct events, any order
EventLists ==
    {ids \in UNION {[1..n -> DmIds] : n \in 0..MaxEvents} :
        \A i, j \in 1..Len(ids) : i # j => ids[i] # ids[j]}

DmOutcomes == {Returned("Hi there"), Raised("Request timed out")}

\* send_dm: the DM sent; a failure is logged and swallowed
send_dm(user_id, text, delivered) ==
    [recipient_id |-> user_id, text |-> text, ok |-> delivered]

\* process_incoming_dm: raises when the provider call raises
process_incoming_dm(dm, out, delivered) ==
    [raised |-> ~out.ok,
     gen |-> <<[prompt |-> dm.text, out |-> out, id |-> dm.id]>>,
     sends |-> IF out.ok THEN <<send_dm(dm.sender_id, out.text, delivered)>> ELSE <<>>]

\* as last_id_after, but the marker is set before the event is processed
last_id_before_process(last, dm, done) == Some(dm.id)

\* last_id after lines 69-70 for one event: the assignment is reached only
\* when process_incoming_dm returned
last_id_after(last, dm, done) == IF done.raised THEN last ELSE Some(dm.id)

RECURSIVE ForEvents(_, _, _, _, _, _, _)
\* the for loop of one poll iteration, from event k on
ForEvents(ids, k, last, outs, delivered, gen, sends) ==
    IF k > Len(ids)
    THEN [last_id |-> last, gen |-> gen, sends |-> sends, error |-> ""]
    ELSE
    LET dm == DmEvent(ids[k]) IN
    IF Some(dm.id) # last
    THEN LET done == process_incoming_dm(dm, outs[k], delivered) IN
         IF done.raised
         THEN [last_id |-> last_id_after(last, dm, done), gen |-> gen \o done.gen,
               sends |-> sends, error |-> outs[k].text]
         ELSE ForEvents(ids, k + 1, last_id_after(last, dm, done), outs, delivered,
                        gen \o done.gen, sends \o done.sends)
    ELSE ForEvents(ids, k + 1, last, outs, delivered, gen, sends)

\* one iteration of the while loop of start_dm_listener
poll_iteration(last, fetched, ids, outs, delivered) ==
    IF ~fetched
    THEN [last_id |-> last, gen |-> <<>>, sends |-> <<>>, error |-> "fetch failed"]
    ELSE ForEvents(ids, 1, last, outs, delivered, <<>>, <<>>)

\* as after_iteration, but an exception of the iteration leaves the loop
after_iteration_reraise(error) == IF error # "" THEN "stopped" ELSE "sleeping"

\* where the loop is after one iteration: the except clause logs the error,
\* and the sleep follows in either case
after_iteration(error) == "sleeping"

\* ids for which a trace made provider calls, counted
CallsFor(gen, i) == Cardinality({k \in 1..Len(gen) : gen[k].id = i})

-----------------------------------------------------------------------------
(* Provider client: app/config.py, app/llm_service.py, lifespan of app/main.py *)

UPPER == "ABCDEFGHIJKLMNOPQRSTUVWXYZ"
LOWER == "abcdefghijklmnopqrstuvwxyz"

RECURSIVE lower(_)
\* s.lower()
lower(s) ==
    IF s = "" THEN ""
    ELSE LET c == SubSeq(s, 1, 1)
             up == {i \in 1..Len(UPPER) : SubSeq(UPPER, i, i) = c}
         IN  (IF up = {} THEN c ELSE LET i == CHOOSE i \in up : TRUE IN SubSeq(LOWER, i, i))
             \o lower(SubSeq(s, 2, Len(s)))

\* class Config as the environment sets it
Config(provider, key, token, max_tokens) ==
    [LLM_PROVIDER |-> provider, LLM_API_KEY |-> key,
     TELEGRAM_BOT_TOKEN |-> token, MAX_TOKENS |-> max_tokens]

Configs ==
    {Config(p, k, t, 1000) :
        p \in {"openai", "anthropic", "xai", "OpenAI", "bogus"},
        k \in {"", "sk-test"},
        t \in {"", "123:abc"}}

\* the configuration of the programs whose provider client is not looked at
DefaultConfig == Config("openai", "sk-test", "123:abc", 1000)

\* as Config_validate, but LLM_PROVIDER is not looked at
Config_validate_any_provider(cfg) ==
    cfg.TELEGRAM_BOT_TOKEN # "" /\ cfg.LLM_API_KEY # ""

\* Config.validate: TRUE when it returns, FALSE when it raises ValueError
Config_validate(cfg) ==
    /\ cfg.TELEGRAM_BOT_TOKEN # ""
    /\ cfg.LLM_API_KEY # ""
    /\ cfg.LLM_PROVIDER \in {"openai", "anthropic", "xai"}

\* LLMService.__init__
LLMService(cfg) ==
    [provider |-> lower(cfg.LLM_PROVIDER), api_key |-> cfg.LLM_API_KEY,
     max_tokens |-> cfg.MAX_TOKENS]

\* the endpoint of a provider
ProviderUrl(provider) ==
    IF provider = "openai" THEN "https://api.openai.com/v1/chat/completions"
    ELSE IF provider = "anthropic" THEN "https://api.anthropic.com/v1/messages"
    ELSE "https://api.x.ai/v1/chat/completions"

\* a call of generate: the request posted (None when none is), the text
\* returned or the exception raised, and the instance afterwards
Generated(request, out, self) == [request |-> request, out |-> out, self |-> self]

NoCall == [text |-> "", max_tokens |-> None, request |-> None, out |-> Returned(""),
           self |-> None]

\* the max_tokens arguments of generate: not given, or an integer
MaxTokensArgs == {None, Some(0), Some(1), Some(500)}

\* tokens = max_tokens or self.max_tokens
generate_tokens(self, max_tokens) ==
    IF TruthyInt(max_tokens) THEN Get(max_tokens) ELSE self.max_tokens

\* LLMService.generate
generate(self, text, max_tokens, out) ==
    LET tokens == generate_tokens(self, max_tokens) IN
    IF self.provider \in {"openai", "anthropic", "xai"}
    THEN Generated(Some([url |-> ProviderUrl(self.provider), prompt |-> text,
                         max_tokens |-> tokens]), out, self)
    ELSE Generated(None, Raised("Unsupported LLM provider: " \o self.provider), self)

-----------------------------------------------------------------------------
(* Requests in flight: one task per request, app/main.py and               *)
(* app/routers/whatsapp.py.  A task runs from one await to the next; the   *)
(* awaits of the network calls are where another task may run.             *)

Tasks == 1..MaxTasks

\* the frame of a task's coroutine: where it is suspended, the request, its
\* local variables, the argument of the provider call it is waiting for,
\* and the calls made and the response so far
Frame(pc, locals, asked, trace) ==
    [pc |-> pc, locals |-> locals, asked |-> asked, trace |-> trace]

Idle == Frame("idle", None, None, NoEvent)

\* the requests that may arrive while others are in flight
InFlightPayloads ==
    {Update(Some(1), Some(TelegramMessage(Some(5), Some(42), Some(0), Some("hello"))), None),
     Update(Some(2), None, Some(TelegramMessage(Some(6), Some(43), Some(0), Some("what is TLA+?")))),
     [kind |-> "notjson"]}

InFlightForms ==
    {[WaId |-> Some("15550001"), From |-> Some("whatsapp:+15550001"), Body |-> Some(" hi ")]}

\* the provider's answers to a prompt: a reply that depends on it, or an error
AnswersTo(prompt) == {Returned("re: " \o prompt), Raised("Request timed out")}

\* as locals, but the handler's variables are module-level: the ones of the
\* first task are read while it has any
locals_module_level(frames, t) ==
    IF frames[1].locals # None THEN Get(frames[1].locals) ELSE Get(frames[t].locals)

\* chat_id, user_text, update (body, user_id): the local variables of the
\* handler as task t reads them
locals(frames, t) == Get(frames[t].locals)

\* webhook from its entry to the await of send_typing_action
webhook_start(payload) ==
    IF decode_error(payload) # None
    THEN Frame("done", None, None, catch_all(payload, Get(decode_error(payload)), <<>>))
    ELSE
    LET parsed == parse_webhook(payload) IN
    IF parsed = None
    THEN Frame("done", None, None,
               Trace("telegram", payload, 400, "Invalid payload", <<>>, <<>>, <<>>))
    ELSE
    LET update == Get(parsed)
        message_data == extract_message_data(update)
    IN
    IF message_data = None
    THEN Frame("done", None, None,
               Trace("telegram", payload, 200, "No text message", <<>>, <<>>, <<>>))
    ELSE Frame("typing",
               Some([chat_id |-> Get(message_data)[1], text |-> Get(message_data)[2],
                     update |-> Some(update)]),
               None,
               Trace("telegram", payload, 0, "", <<>>, <<>>, <<>>))

\* webhook from the return of send_typing_action to the await of generate
webhook_typed(frames, t, http) ==
    LET f == frames[t]
        typed == send_typing_action(http)
        typing == <<[chat_id |-> locals(frames, t).chat_id, ok |-> typed.value]>>
    IN  IF typed.raised # ""
        THEN Frame("done", f.locals, None, catch_all(f.trace.input, typed.raised, typing))
        ELSE Frame("generating", f.locals, Some(locals(frames, t).text),
                   [f.trace EXCEPT !.typing = typing])

\* webhook from the return of generate to the await of send_message
webhook_generated(frames, t, out) ==
    LET f == frames[t] IN
    Frame("sending", f.locals, None,
          [f.trace EXCEPT !.gen = <<[prompt |-> Get(f.asked), out |-> out]>>])

\* webhook from the return of send_message to its response
webhook_sent(frames, t, delivered) ==
    LET f == frames[t]
        l == locals(frames, t)
        out == f.trace.gen[1].out
    IN  IF ~out.ok
        THEN Frame("done", f.locals, None,
                   [f.trace EXCEPT !.status = 500, !.message = "LLM generation failed",
                                   !.sends = generation_failed(l.chat_id, out, delivered)])
        ELSE
        LET sent == send_message(l.chat_id, out.text, reply_target(Get(l.update)), delivered)
            response == delivery_response(sent.ok)
        IN  Frame("done", f.locals, None,
                  [f.trace EXCEPT !.status = response.status,
                                  !.message = response.message, !.sends = <<sent>>])

\* whatsapp_webhook from its entry to the await of generate
whatsapp_start(form, signature) ==
    LET input == [form |-> form, signature |-> signature] IN
    IF ~validate(WebhookUrl, form, signature)
    THEN Frame("done", None, None,
               Trace("whatsapp", input, 403, "Invalid Twilio signature", <<>>, <<>>, <<>>))
    ELSE
    LET body == strip(OptText(form.Body)) IN
    IF body = ""
    THEN Frame("done", None, None,
               Trace("whatsapp", input, 200, "", <<>>, <<>>, <<[text |-> EMPTY_NOTICE]>>))
    ELSE
    LET user_id == IF Truthy(form.WaId) THEN Get(form.WaId)
                   ELSE IF Truthy(form.From) THEN Get(form.From) ELSE "unknown"
    IN  Frame("generating", Some([chat_id |-> user_id, text |-> body, update |-> None]),
              Some(body), Trace("whatsapp", input, 0, "", <<>>, <<>>, <<>>))

\* whatsapp_webhook from the return of generate to its response
whatsapp_generated(frames, t, out) ==
    LET f == frames[t]
        handled == handle_incoming_message(locals(frames, t).chat_id, Get(f.asked), out)
    IN  Frame("done", f.locals, None,
              [f.trace EXCEPT !.status = 200, !.gen = handled.gen,
                              !.sends = <<[text |-> handled.reply]>>])

-----------------------------------------------------------------------------
(* Actions *)

Init ==
    /\ unit \in {"app", "concurrent", "discord", "twitter", "service", "controller"}
    /\ config \in IF unit = "service" THEN Configs ELSE {DefaultConfig}
    /\ llm_service = IF unit = "service" THEN None ELSE Some(LLMService(config))
    /\ server = "starting"
    /\ call = NoCall
    /\ llm_client \in IF unit = "discord" THEN Backends ELSE {NoBackend}
    /\ req = NoEvent
    /\ listener = "polling"
    /\ last_id = None
    /\ prevPoll = None
    /\ dmCalls = [i \in DmIds |-> 0]
    /\ polls = 0
    /\ tasks = [t \in Tasks |-> Idle]

TelegramWebhook ==
    /\ unit = "app"
    /\ \E payload \in Payloads, typingHttp \in TypingOutcomes, out \in Outcomes,
          delivered \in BOOLEAN :
          req' = webhook(payload, typingHttp, out, delivered)
    /\ UNCHANGED <<unit, config, llm_service, server, call, llm_client, listener,
                   last_id, prevPoll, dmCalls, polls, tasks>>

WhatsAppWebhook ==
    /\ unit = "app"
    /\ \E form \in Forms, out \in Outcomes :
          \E signature \in Signatures(form) :
             req' = whatsapp_webhook(form, signature, out)
    /\ UNCHANGED <<unit, config, llm_service, server, call, llm_client, listener,
                   last_id, prevPoll, dmCalls, polls, tasks>>

DiscordMessage ==
    /\ unit = "discord"
    /\ \E message \in DiscordMessages, out \in DiscordOutcomes(llm_client),
          fault \in ApiFaults :
          req' = on_message(llm_client, message, out, fault)
    /\ UNCHANGED <<unit, config, llm_service, server, call, llm_client, listener,
                   last_id, prevPoll, dmCalls, polls, tasks>>

\* one iteration of the while loop, up to the sleep
Poll ==
    /\ unit = "twitter"
    /\ listener = "polling"
    /\ polls < MaxPolls
    /\ \E fetched \in BOOLEAN :
          \E ids \in IF fetched THEN EventLists ELSE {<<>>} :
          \E outs \in [1..Len(ids) -> DmOutcomes],
             delivered \in IF ids = <<>> THEN {TRUE} ELSE BOOLEAN :
             LET it == poll_iteration(last_id, fetched, ids, outs, delivered) IN
             /\ req' = Trace("twitter", [fetched |-> fetched, events |-> ids],
                             0, it.error, <<>>, it.gen, it.sends)
             /\ last_id' = it.last_id
             /\ dmCalls' = [i \in DmIds |-> dmCalls[i] + CallsFor(it.gen, i)]
             /\ listener' = after_iteration(it.error)
    /\ prevPoll' = IF polls = 0 THEN None
                   ELSE Some([fetched |-> req.input.fetched,
                              events |-> req.input.events,
                              error |-> req.message])
    /\ polls' = polls + 1
    /\ UNCHANGED <<unit, config, llm_service, server, call, llm_client, tasks>>

\* await asyncio.sleep(3) returns
Sleep ==
    /\ unit = "twitter"
    /\ listener = "sleeping"
    /\ listener' = "polling"
    /\ UNCHANGED <<unit, config, llm_service, server, call, llm_client, req, last_id,
                   prevPoll, dmCalls, polls, tasks>>

\* import of app.llm_service: llm_service = LLMService()
Import ==
    /\ unit = "service"
    /\ llm_service = None
    /\ llm_service' = Some(LLMService(config))
    /\ UNCHANGED <<unit, config, server, call, llm_client, req, listener, last_id,
                   prevPoll, dmCalls, polls, tasks>>

\* startup of the FastAPI app: config.validate() returns, or raises and the
\* app does not start
Lifespan ==
    /\ unit = "service"
    /\ llm_service # None
    /\ server = "starting"
    /\ server' = IF Config_validate(config) THEN "serving" ELSE "refused"
    /\ UNCHANGED <<unit, config, llm_service, call, llm_client, req, listener, last_id,
                   prevPoll, dmCalls, polls, tasks>>

\* a call of llm_service.generate
Generate ==
    /\ unit = "service"
    /\ llm_service # None
    /\ \E text \in {"hello"}, max_tokens \in MaxTokensArgs, out \in DmOutcomes :
          LET g == generate(Get(llm_service), text, max_tokens, out) IN
          /\ call' = [text |-> text, max_tokens |-> max_tokens,
                      request |-> g.request, out |-> g.out, self |-> Some(g.self)]
          /\ llm_service' = Some(g.self)
    /\ UNCHANGED <<unit, config, server, llm_client, req, listener, last_id,
                   prevPoll, dmCalls, polls, tasks>>

\* a call of telegram_controller.send_message
SendMessage ==
    /\ unit = "controller"
    /\ \E chat_id \in {42}, text \in {"Hi there"},
          reply_to_message_id \in {None, Some(0), Some(5)}, http \in HttpOutcomes :
          LET result == send_message_result(http) IN
          req' = Trace("send_message", [chat_id |-> chat_id, http |-> http], 0,
                       result.raised, <<>>, <<>>,
                       <<send_message(chat_id, text, reply_to_message_id, result.value)>>)
    /\ UNCHANGED <<unit, config, llm_service, server, call, llm_client, listener,
                   last_id, prevPoll, dmCalls, polls, tasks>>

\* a call of telegram_controller.send_typing_action
SendTypingAction ==
    /\ unit = "controller"
    /\ \E chat_id \in {42, 43}, http \in HttpOutcomes :
          LET result == send_typing_action(http) IN
          req' = Trace("send_typing_action", [chat_id |-> chat_id, http |-> http], 0,
                       result.raised, <<[chat_id |-> chat_id, ok |-> result.value]>>,
                       <<>>, <<>>)
    /\ UNCHANGED <<unit, config, llm_service, server, call, llm_client, listener,
                   last_id, prevPoll, dmCalls, polls, tasks>>

\* a request arrives at POST /webhook and runs to its first await
WebhookArrives ==
    /\ unit = "concurrent"
    /\ \E t \in Tasks, payload \in InFlightPayloads :
          /\ tasks[t].pc \in {"idle", "done"}
          /\ tasks' = [tasks EXCEPT ![t] = webhook_start(payload)]
    /\ UNCHANGED <<unit, config, llm_service, server, call, llm_client, req, listener,
                   last_id, prevPoll, dmCalls, polls>>

\* a request arrives at POST /webhook/whatsapp and runs to its first await
WhatsAppArrives ==
    /\ unit = "concurrent"
    /\ \E t \in Tasks, form \in InFlightForms :
          \E signature \in {"forged", compute_signature(WebhookUrl, form)} :
             /\ tasks[t].pc \in {"idle", "done"}
             /\ tasks' = [tasks EXCEPT ![t] = whatsapp_start(form, signature)]
    /\ UNCHANGED <<unit, config, llm_service, server, call, llm_client, req, listener,
                   last_id, prevPoll, dmCalls, polls>>

\* send_typing_action returns to a task
TypingReturns ==
    /\ unit = "concurrent"
    /\ \E t \in Tasks, http \in TypingOutcomes :
          /\ tasks[t].pc = "typing"
          /\ tasks' = [tasks EXCEPT ![t] = webhook_typed(tasks, t, http)]
    /\ UNCHANGED <<unit, config, llm_service, server, call, llm_client, req, listener,
                   last_id, prevPoll, dmCalls, polls>>

\* llm_service.generate returns to a task, or raises in it
GenerateReturns ==
    /\ unit = "concurrent"
    /\ \E t \in Tasks :
          /\ tasks[t].pc = "generating"
          /\ \E out \in AnswersTo(Get(tasks[t].asked)) :
                LET g == generate(Get(llm_service), Get(tasks[t].asked), None, out) IN
                /\ llm_service' = Some(g.self)
                /\ tasks' = [tasks EXCEPT ![t] =
                                IF tasks[t].trace.channel = "telegram"
                                THEN webhook_generated(tasks, t, g.out)
                                ELSE whatsapp_generated(tasks, t, g.out)]
    /\ UNCHANGED <<unit, config, server, call, llm_client, req, listener,
                   last_id, prevPoll, dmCalls, polls>>

\* send_message returns to a task
SendReturns ==
    /\ unit = "concurrent"
    /\ \E t \in Tasks, delivered \in BOOLEAN :
          /\ tasks[t].pc = "sending"
          /\ tasks' = [tasks EXCEPT ![t] = webhook_sent(tasks, t, delivered)]
    /\ UNCHANGED <<unit, config, llm_service, server, call, llm_client, req, listener,
                   last_id, prevPoll, dmCalls, polls>>

Next ==
    \/ TelegramWebhook
    \/ WhatsAppWebhook
    \/ DiscordMessage
    \/ Poll
    \/ Sleep
    \/ Import
    \/ Lifespan
    \/ Generate
    \/ SendMessage
    \/ SendTypingAction
    \/ WebhookArrives
    \/ WhatsAppArrives
    \/ TypingReturns
    \/ GenerateReturns
    \/ SendReturns

Spec == Init /\ [][Next]_vars

\* the DM listener on its own, as the event loop schedules it: the
\* iteration runs when the loop is at its top, the sleep returns
ListenerInit == Init /\ unit = "twitter"

ListenerNext == Poll \/ Sleep

ListenerSpec ==
    ListenerInit /\ [][ListenerNext]_vars /\ WF_vars(Poll) /\ WF_vars(Sleep)

-----------------------------------------------------------------------------
(* Properties *)

Sends == {req.sends[k] : k \in 1..Len(req.sends)}
Calls == {req.gen[k] : k \in 1..Len(req.gen)}

\* the message of a Telegram payload that the text is taken from: message
\* when it has text, edited_message otherwise
TextSource(p) ==
    IF p.message # None /\ Truthy(Get(p.message).text)
    THEN Get(p.message) ELSE Get(p.edited_message)

\* a Telegram payload that validates and carries text
Actionable(p) ==
    /\ p.kind = "object"
    /\ p.update_id # None
    /\ MessageOk(p.message) /\ MessageOk(p.edited_message)
    /\ \/ p.message # None /\ Truthy(Get(p.message).text)
       \/ p.edited_message # None /\ Truthy(Get(p.edited_message).text)

\* a Telegram payload that validates and carries no text
NoText(p) ==
    /\ p.kind = "object"
    /\ p.update_id # None
    /\ MessageOk(p.message) /\ MessageOk(p.edited_message)
    /\ ~Actionable(p)

\* a WhatsApp request that is genuine
Genuine(in) == in.signature = compute_signature(WebhookUrl, in.form)

\* a WhatsApp form whose Body is empty after trimming
EmptyBody(form) == strip(OptText(form.Body)) = ""

\* C1: in the Telegram webhook, when llm_service.generate raises, one
\* send_message is made, its text is exactly the fixed fallback, and no
\* send of the request carries the exception's message.
C1_FallbackOnProviderError ==
    (req.channel = "telegram" /\ req.gen # <<>> /\ ~req.gen[1].out.ok) =>
        /\ Len(req.sends) = 1
        /\ \A s \in Sends :
              /\ s.text = "Sorry, I encountered an error processing your request. Please try again later."
              /\ ~Contains(s.text, req.gen[1].out.text)

C1_Witness ==
    /\ req.channel = "telegram"
    /\ Actionable(req.input)
    /\ req.gen # <<>> /\ ~req.gen[1].out.ok
    /\ req.sends # <<>>
    /\ req.status = 500

\* C2: on every channel, whatever the outcome of the provider call, the
\* sender of a message whose text went to the provider is sent a reply; when
\* the call raised, that reply is the one fixed fallback string, and no text
\* sent carries the error message.
C2_ReplyOrFallback ==
    \A c \in Calls :
        /\ Sends # {}
        /\ ~c.out.ok =>
              /\ \E s \in Sends : s.text = FALLBACK
              /\ \A s \in Sends : ~Contains(s.text, c.out.text)

\* C3: a WhatsApp request whose signature header is missing or does not
\* validate against the URL and form is refused with 403, and no provider
\* call and no reply message is made for it, whatever its Body.
C3_SignatureGate ==
    (req.channel = "whatsapp" /\ ~Genuine(req.input)) =>
        /\ req.status = 403
        /\ req.gen = <<>>
        /\ req.sends = <<>>

C3_Witness ==
    /\ req.channel = "whatsapp"
    /\ req.input.signature = "forged"
    /\ req.input.form.Body = Some("hi")
    /\ req.status = 403

C5_ExactlyOneProviderCall ==
    /\ (req.channel = "telegram" /\ Actionable(req.input)) => Len(req.gen) = 1
    /\ (req.channel = "whatsapp" /\ Genuine(req.input) /\ ~EmptyBody(req.input.form)) =>
          Len(req.gen) = 1
    /\ req.channel = "discord" => Len(req.gen) <= 1
    /\ \A i \in DmIds : dmCalls[i] <= 1

\* C6: when two consecutive poll cycles return the same list of one or more
\* events, the second cycle invokes process_incoming_dm zero times (stated
\* here for a first cycle that ran without error, the case most in the
\* claim's favour).
C6_SecondCycleSilent ==
    (/\ req.channel = "twitter"
     /\ prevPoll # None
     /\ Get(prevPoll).fetched /\ req.input.fetched
     /\ Get(prevPoll).error = ""
     /\ Get(prevPoll).events = req.input.events
     /\ Len(req.input.events) >= 1) =>
        req.gen = <<>>

\* C7: every send_message made while handling a Telegram update targets the
\* chat of the message the text was taken from.
C7_ReplyToSourceChat ==
    (req.channel = "telegram" /\ Actionable(req.input)) =>
        /\ req.sends # <<>>
        /\ \A s \in Sends : s.chat_id = Get(TextSource(req.input).chat)

C7_Witness ==
    /\ req.channel = "telegram"
    /\ Actionable(req.input)
    /\ req.input.message # None /\ req.input.edited_message # None
    /\ Get(req.input.message).chat # Get(req.input.edited_message).chat
    /\ ~Truthy(Get(req.input.message).text)
    /\ req.sends # <<>>

\* C8: a Discord message whose author is a bot causes no provider call and
\* no send, also when it is a direct message that mentions the bot and
\* carries text.
C8_BotAuthorsIgnored ==
    (req.channel = "discord" /\ req.input.author_bot) =>
        /\ req.gen = <<>>
        /\ req.sends = <<>>

C8_Witness ==
    /\ req.channel = "discord"
    /\ req.input.author_bot
    /\ req.input.is_dm /\ req.input.mentioned
    /\ req.input.content = MentionNick \o " hi"

\* C9: on every channel and send path, a provider reply longer than 1900
\* characters is sent as its first 1900 characters followed by the
\* truncation marker, and no text longer than 1900 characters plus the
\* marker is ever sent.
C9_TruncatedEverywhere ==
    /\ \A c \in Calls : \A s \in Sends :
          (c.out.ok /\ Len(c.out.text) > 1900) => s.text # c.out.text
    /\ \A s \in Sends : Len(s.text) <= 1900 + Len("\n\n...[truncated]")

\* C10: a structurally invalid Telegram payload (not JSON, not an object, or
\* an object with a required field missing) is answered with 400, and no
\* typing action, provider call or send_message is made for it.
C10_InvalidPayloadIs400 ==
    (/\ req.channel = "telegram"
     /\ \/ req.input.kind # "object"
        \/ req.input.update_id = None
        \/ ~MessageOk(req.input.message)
        \/ ~MessageOk(req.input.edited_message)) =>
        /\ req.status = 400
        /\ req.typing = <<>>
        /\ req.gen = <<>>
        /\ req.sends = <<>>

\* C11: in the Telegram webhook, an exception raised while handling a
\* request (here: reading a body that is not a JSON object) is answered
\* with status 500 and a message that is not the exception's own message.
C11_GenericServerError ==
    (req.channel = "telegram" /\ decode_error(req.input) # None) =>
        /\ req.status = 500
        /\ req.message # Get(decode_error(req.input))

\* C14 as stated: on provider success the reply carries reply_to_message_id
\* equal to the message_id of the message the text was taken from.
C14_ReplyToSourceMessage ==
    (req.channel = "telegram" /\ req.gen # <<>> /\ req.gen[1].out.ok) =>
        /\ Len(req.sends) = 1
        /\ req.sends[1].reply_to_message_id = TextSource(req.input).message_id

\* C14: on provider success the reply carries reply_to_message_id equal to
\* the message_id of the update's message field when that field is present
\* and its id is not 0, whichever field the text was taken from, and carries
\* no reply_to_message_id otherwise.
C14_ReplyToMessageField ==
    (req.channel = "telegram" /\ req.gen # <<>> /\ req.gen[1].out.ok) =>
        /\ Len(req.sends) = 1
        /\ req.sends[1].reply_to_message_id =
              IF req.input.message # None /\ Get(req.input.message).message_id # Some(0)
              THEN Get(req.input.message).message_id
              ELSE None

C14_Witness ==
    /\ req.channel = "telegram" /\ req.gen # <<>> /\ req.gen[1].out.ok
    /\ req.input.message = None
    /\ Get(req.input.edited_message).message_id = Some(5)
    /\ Len(req.sends) = 1
    /\ req.sends[1].reply_to_message_id = None

\* C15: on every channel, every text passed to the provider is non-empty
\* after trimming whitespace.
C15_PromptNonEmpty == \A c \in Calls : strip(c.prompt) # ""

C20_TypingNonCritical ==
    (req.channel = "telegram" /\ Actionable(req.input)) =>
        /\ req.gen # <<>>
        /\ \A out \in Outcomes, delivered \in BOOLEAN :
           \A h1 \in TypingOutcomes, h2 \in TypingOutcomes :
              LET a == webhook(req.input, h1, out, delivered)
                  b == webhook(req.input, h2, out, delivered)
              IN  /\ a.gen = b.gen
                  /\ a.sends = b.sends
                  /\ a.status = b.status
                  /\ a.message = b.message

C20_Witness ==
    /\ req.channel = "telegram" /\ Actionable(req.input)
    /\ req.typing # <<>> /\ ~req.typing[1].ok
    /\ req.status = 200 /\ req.message = ""
    /\ req.sends # <<>> /\ req.sends[1].ok

\* C12 as stated: no LLMService instance with an unsupported provider
\* exists, and generate never raises the unsupported-provider error.
C12_RejectedAtConstruction ==
    /\ llm_service # None => Get(llm_service).provider \in {"openai", "anthropic", "xai"}
    /\ ~startswith(call.out.text, "Unsupported LLM provider")

\* C12: an unsupported provider is rejected by Config.validate when the app
\* starts, so a serving app has a supported provider; an instance with an
\* unsupported provider raises "Unsupported LLM provider: <p>" from generate
\* without making a request, and generate raises it for no other instance.
C12_RejectedAtStartupOrCall ==
    /\ server = "serving" =>
          /\ config.LLM_PROVIDER \in {"openai", "anthropic", "xai"}
          /\ Get(llm_service).provider \in {"openai", "anthropic", "xai"}
    /\ call.self # None =>
          LET p == Get(call.self).provider IN
          IF p \in {"openai", "anthropic", "xai"}
          THEN call.request # None /\ ~startswith(call.out.text, "Unsupported LLM provider")
          ELSE call.request = None /\ call.out = Raised("Unsupported LLM provider: " \o p)

C12_Witness ==
    /\ server = "refused"
    /\ config.LLM_PROVIDER = "bogus" /\ config.LLM_API_KEY # "" /\ config.TELEGRAM_BOT_TOKEN # ""
    /\ call.self # None /\ Get(call.self).provider = "bogus"
    /\ call.request = None
    /\ call.out = Raised("Unsupported LLM provider: bogus")

\* C13: a call of generate that makes a request uses the max_tokens argument
\* when one is given (0 included) and the configured default otherwise, and
\* leaves self.max_tokens and the configuration as they were.
C13_OverrideForOneCall ==
    (call.self # None /\ call.request # None) =>
        /\ Get(call.request).max_tokens =
              IF call.max_tokens # None THEN Get(call.max_tokens) ELSE config.MAX_TOKENS
        /\ Get(llm_service).max_tokens = config.MAX_TOKENS

\* the place of the event with a given id in the events of a poll
Pos(events, id) == CHOOSE i \in 1..Len(events) : events[i] = id

\* C16: in one poll cycle the events are processed in list order, an event
\* whose processing raises is the last one processed in the cycle, and
\* last_id ends as the id of the last event processed without raising, or
\* as it was when there is none.
C16_MarkerAfterProcessing ==
    [][(unit = "twitter" /\ polls' = polls + 1) =>
        LET gen == req'.gen
            events == req'.input.events
            done == {k \in 1..Len(gen) : gen[k].out.ok}
        IN  /\ \A k \in 1..Len(gen) : \E i \in 1..Len(events) : events[i] = gen[k].id
            /\ \A j, k \in 1..Len(gen) :
                  j < k => Pos(events, gen[j].id) < Pos(events, gen[k].id)
            /\ \A k \in 1..Len(gen) : ~gen[k].out.ok => k = Len(gen)
            /\ last_id' = IF done = {} THEN last_id
                          ELSE Some(gen[CHOOSE k \in done : \A j \in done : j <= k].id)
    ]_vars

C16_Witness ==
    /\ req.channel = "twitter"
    /\ req.input.events = <<1, 2>>
    /\ Len(req.gen) = 1 /\ req.gen[1].id = 1 /\ ~req.gen[1].out.ok
    /\ last_id = None

\* C17: every iteration of the listener, failed or not, ends in the sleep,
\* and after an iteration that failed the loop goes on polling: every poll
\* up to the last one of the behaviour (MaxPolls) is eventually made.
C17_PollFollowsFailure ==
    /\ [][polls' = polls + 1 => listener' = "sleeping"]_vars
    /\ (req.message # "" /\ polls < MaxPolls) ~> (polls = MaxPolls)

C17_Witness ==
    /\ unit = "twitter"
    /\ polls = 2
    /\ prevPoll # None /\ Get(prevPoll).error # ""
    /\ listener = "sleeping"

\* C18: send_message raises nothing, and returns True exactly when the call
\* got a response with a 2xx status whose body is a JSON object with a
\* truthy ok field.
C18_SendMessageNeverRaises ==
    req.channel = "send_message" =>
        /\ req.message = ""
        /\ Len(req.sends) = 1
        /\ req.sends[1].ok =
              (/\ req.input.http.error = ""
               /\ req.input.http.status \in 200..299
               /\ req.input.http.body = "{\"ok\": true}")

C18_Witness ==
    /\ req.channel = "send_message"
    /\ req.input.http.error = "" /\ req.input.http.status = 200
    /\ req.input.http.body = "<html>"
    /\ req.message = ""
    /\ ~req.sends[1].ok

\* the provider calls on_message made itself for the event handled last
MessageCalls == {c \in Calls : c.path = "message"}

\* C21: for a Discord message of a non-bot author, a call on_message makes
\* for a direct message has the trimmed content as its prompt; a call it
\* makes for a channel message is made only when the bot is among the
\* mentions, and its prompt contains no mention token of the bot, <@id> or
\* <@!id>.
C21_InvocationRule ==
    (req.channel = "discord" /\ ~req.input.author_bot) =>
        \A c \in MessageCalls :
            IF req.input.is_dm
            THEN c.prompt = strip(req.input.content)
            ELSE /\ req.input.mentioned
                 /\ ~Contains(c.prompt, "<@" \o BotId \o ">")
                 /\ ~Contains(c.prompt, "<@!" \o BotId \o ">")

\* the text and the chat of the request a task is handling
OwnText(trace) ==
    IF trace.channel = "telegram" THEN Get(TextSource(trace.input).text)
    ELSE strip(OptText(trace.input.form.Body))

OwnChat(trace) == Get(TextSource(trace.input).chat)

\* C22: whatever the interleaving of the requests in flight at their
\* awaits, the provider call of each request receives that request's own
\* text, each reply goes to that request's own chat and answers its own
\* text, a completed Telegram request has made the calls and returned the
\* response of the handler run alone, and the LLMService instance is as
\* constructed.
C22_RequestsIsolated ==
    unit = "concurrent" =>
        /\ llm_service = Some(LLMService(config))
        /\ \A t \in Tasks :
              LET f == tasks[t]
                  tr == f.trace
              IN  /\ f.asked # None => Get(f.asked) = OwnText(tr)
                  /\ \A k \in 1..Len(tr.gen) : tr.gen[k].prompt = OwnText(tr)
                  /\ tr.channel = "telegram" =>
                        \A k \in 1..Len(tr.sends) :
                           /\ tr.sends[k].chat_id = OwnChat(tr)
                           /\ tr.sends[k].text \in {FALLBACK, "re: " \o OwnText(tr)}
                  /\ tr.channel = "whatsapp" =>
                        \A k \in 1..Len(tr.sends) :
                           tr.sends[k].text \in
                              {WA_FALLBACK, EMPTY_NOTICE, "re: " \o OwnText(tr)}
                  /\ (f.pc = "done" /\ tr.channel = "telegram" /\ tr.gen # <<>>) =>
                        tr = webhook(tr.input,
                                     IF tr.typing[1].ok THEN Http("", 200, "{\"ok\": true}")
                                     ELSE Http("", 500, "{}"),
                                     tr.gen[1].out, tr.sends[1].ok)

C22_Witness ==
    /\ unit = "concurrent"
    /\ tasks[1].pc = "sending" /\ tasks[1].trace.channel = "telegram"
    /\ tasks[1].trace.gen[1].prompt = "what is TLA+?"
    /\ tasks[2].pc = "generating" /\ tasks[2].trace.channel = "telegram"
    /\ tasks[2].asked = Some("hello")

=============================================================================
